---------------------------- MODULE Spec2Model ----------------------------
(***************************************************************************)
(* Neural Inbox: the item store, the two-phase confirmation protocol of    *)
(* the agent tools, the reminder scheduler and the text-message handler,   *)
(* modelled from src/src/db/repository.py, src/src/ai/tools.py,            *)
(* src/src/ai/batch_confirmations.py, src/src/bot/handlers/callbacks.py,   *)
(* src/src/bot/jobs/reminders.py and src/src/bot/handlers/message.py.      *)
(*                                                                         *)
(* Time is an integer number of minutes.  An Optional[T] value of the      *)
(* source is a sequence of length at most one: None is <<>>, v is <<v>>.   *)
(***************************************************************************)
EXTENDS Integers, Sequences, FiniteSets, TLC

VARIABLES
    items,          \* table items: id -> row
    projects,       \* table projects: id -> row
    nextItemId,     \* items.id sequence
    nextProjectId,  \* projects.id sequence
    pending,        \* batch_confirmations._pending: token -> PendingOperation
    nextToken,      \* tokens issued so far (generate_token never repeats)
    now,            \* wall clock, minutes
    last,           \* the last call made and what it returned (history)
    shown,          \* token -> item ids the preview of that token covered (history)
    execCount,      \* token -> number of successful executions (history)
    delivered,      \* item id -> reminder times whose message the transport accepted (history)
    marked,         \* item id -> the reminder time a tick's sentinel replaced (history)
    pending_clarifications, \* message.pending_clarifications: user -> text
    links,          \* table item_links: set of rows
    dns,            \* host name -> the address getaddrinfo answers with
    location,       \* host -> the host its response redirects to, if any
    requested,      \* HTTP requests the fetcher has sent: host and address (history)
    storage,        \* MessageHistory._storage: user -> deque of messages
    added,          \* user -> the messages added since the user's last clear (history)
    requests        \* confirm request -> its caller, token, the operation it read, and where it stands

vars == <<items, projects, nextItemId, nextProjectId, pending, nextToken,
          now, last, shown, execCount, delivered, marked,
          pending_clarifications, links, dns, location, requested,
          storage, added, requests>>

fetchVars == <<dns, location, requested>>

historyVars == <<storage, added>>

raceVars == <<requests>>

(* state beside the store: the URL fetcher, the message history and the    *)
(* confirm requests in flight                                              *)
serviceVars == <<fetchVars, historyVars, raceVars>>

reminderVars == <<delivered, marked>>

storeVars == <<items, projects, nextItemId, nextProjectId>>
confirmVars == <<pending, nextToken, shown, execCount>>

----------------------------------------------------------------------------
(* Bounds of the model: rows the tools create, tokens issued, and the      *)
(* clock, which moves ClockStep minutes at a time up to MaxTime.           *)

MaxItems == 2
MaxProjects == 1
MaxTokens == 1
MaxTime == 6
ClockStep == 3

Users == {1, 2}

(* Program constants, in minutes *)

TTL_MINUTES == 5
WINDOW_BACK_MINUTES == 5
WINDOW_AHEAD_MINUTES == 1
SNOOZE_MINUTES == 60

None == <<>>
Some(v) == <<v>>
NoUpdates == [k \in {} |-> 0]

MaxRows == MaxItems + 1

ItemIds == 1..MaxRows
ProjectIds == 1..MaxProjects
Tokens == 1..MaxTokens

EmptyStore == [k \in {} |-> 0]


(* CHECK valid_type of table items *)
ValidTypes == {"task", "idea", "note", "resource", "contact", "event"}

----------------------------------------------------------------------------
(* Rows.  An item row keeps the columns the modelled operations read or    *)
(* write; recurrence is the column ItemRepository.complete reads.          *)

ItemDefaults ==
    [user_id |-> 0, type |-> "note", status |-> "inbox", project_id |-> None,
     priority |-> None,
     due_at |-> None, remind_at |-> None, completed_at |-> None,
     recurrence |-> None, original_input |-> None,
     title |-> None, content |-> None, due_at_raw |-> None, tags |-> <<>>,
     source |-> None]

NewProject(user_id, name) == [user_id |-> user_id, name |-> name]

(* setattr(item, key, value) for each key of kwargs / UPDATE ... SET kwargs *)
SetValues(row, values) ==
    [f \in DOMAIN row |-> IF f \in DOMAIN values THEN values[f] ELSE row[f]]

Remove(table, ids) == [k \in DOMAIN table \ ids |-> table[k]]

Insert(table, id, row) ==
    [k \in DOMAIN table \cup {id} |-> IF k = id THEN row ELSE table[k]]

----------------------------------------------------------------------------
(* ItemRepository and ProjectRepository: each operator is the table after  *)
(* the statement, or the rows the query returns.                           *)

ItemGet(its, item_id, user_id) ==
    IF item_id \in DOMAIN its /\ its[item_id].user_id = user_id
    THEN Some(its[item_id]) ELSE None

search_advanced(its, user_id, filter) ==
    { i \in DOMAIN its :
        /\ its[i].user_id = user_id
        /\ ("status" \in DOMAIN filter => its[i].status = filter.status)
        /\ ("project" \in DOMAIN filter => its[i].project_id = Some(filter.project)) }

BatchRows(its, item_ids, user_id) ==
    { i \in DOMAIN its : i \in item_ids /\ its[i].user_id = user_id }

batch_update(its, item_ids, user_id, values) ==
    [i \in DOMAIN its |->
        IF i \in BatchRows(its, item_ids, user_id)
        THEN SetValues(its[i], values) ELSE its[i]]

batch_delete(its, item_ids, user_id) ==
    Remove(its, BatchRows(its, item_ids, user_id))

ItemUpdate(its, item_id, user_id, values) ==
    IF ItemGet(its, item_id, user_id) = None THEN its
    ELSE [its EXCEPT ![item_id] = SetValues(@, values)]

ProjectGet(projs, project_id, user_id) ==
    IF project_id \in DOMAIN projs /\ projs[project_id].user_id = user_id
    THEN Some(projs[project_id]) ELSE None

ProjectRows(projs, project_id, user_id) ==
    { p \in DOMAIN projs : p = project_id /\ projs[p].user_id = user_id }

ProjectItems(its, project_id, user_id) ==
    { i \in DOMAIN its :
        its[i].project_id = Some(project_id) /\ its[i].user_id = user_id }

get_items_count(its, project_id, user_id) ==
    Cardinality(ProjectItems(its, project_id, user_id))

move_items(its, source_project_id, target_project_id, user_id) ==
    [i \in DOMAIN its |->
        IF i \in ProjectItems(its, source_project_id, user_id)
        THEN [its[i] EXCEPT !.project_id = target_project_id] ELSE its[i]]

(* DELETE FROM projects; items.project_id is ON DELETE SET NULL *)
ProjectDeleteItems(its, projs, project_id, user_id) ==
    [i \in DOMAIN its |->
        IF /\ ProjectRows(projs, project_id, user_id) # {}
           /\ its[i].project_id = Some(project_id)
        THEN [its[i] EXCEPT !.project_id = None] ELSE its[i]]

ProjectDelete(projs, project_id, user_id) ==
    Remove(projs, ProjectRows(projs, project_id, user_id))

(* items.project_id REFERENCES projects(id): a written project id that is  *)
(* no row of projects fails the statement.                                 *)
ForeignKeyFails(projs, project_id, rows) ==
    /\ rows # {}
    /\ project_id # None
    /\ project_id[1] \notin DOMAIN projs

(* table item_links: a row is the pair of its two foreign keys, both with  *)
(* ON DELETE CASCADE; the pair is unique                                   *)
ItemLink(item_id, related_item_id) ==
    [item_id |-> item_id, related_item_id |-> related_item_id]

Cascade(lks, its) ==
    { l \in lks : l.item_id \in DOMAIN its /\ l.related_item_id \in DOMAIN its }

(* the INSERT of a link row fails: a missing endpoint or a repeated pair *)
LinkInsertFails(lks, its, l) ==
    \/ l.item_id \notin DOMAIN its
    \/ l.related_item_id \notin DOMAIN its
    \/ l \in lks

(* ItemLinkRepository.get_item_links: the items joined to the links whose  *)
(* source is item_id                                                       *)
get_item_links(lks, its, item_id) ==
    { l.related_item_id : l \in { k \in lks : k.item_id = item_id
                                              /\ k.related_item_id \in DOMAIN its } }

----------------------------------------------------------------------------
(* batch_confirmations: the confirmation store *)

PendingOperation(action, user_id, filter, updates, matched_ids, created_at) ==
    [action |-> action, user_id |-> user_id, filter |-> filter,
     updates |-> updates, matched_ids |-> matched_ids, created_at |-> created_at]

(* variant: the TTL taken twice as long *)
is_expired_twice(op, t) == t > op.created_at + 2 * TTL_MINUTES

is_expired(op, t) == t > op.created_at + TTL_MINUTES

(* variant: the entry is returned whatever its age *)
get_pending_stale(store, token, t) ==
    IF token \in DOMAIN store THEN Some(store[token]) ELSE None

get_pending(store, token, t) ==
    IF token \in DOMAIN store /\ ~is_expired(store[token], t)
    THEN Some(store[token]) ELSE None

(* variant: the entry stays in the store *)
clear_pending_keep(store, token) == store

clear_pending(store, token) == Remove(store, {token})

cleanup_expired(store, t) ==
    Remove(store, { k \in DOMAIN store : is_expired(store[k], t) })

store_pending(store, token, op, t) == Insert(cleanup_expired(store, t), token, op)

(* variant: the owner is not compared *)
wrong_user_never(op, user_id) == FALSE

(* if pending.user_id != user_id: the check every confirmed path makes *)
wrong_user(op, user_id) == op.user_id # user_id

----------------------------------------------------------------------------
(* What a call is recorded as having done (history only). *)

Affected(its) ==
    { i \in DOMAIN items : i \notin DOMAIN its \/ its[i] # items[i] }

Authorized(user_id, confirmed, token) ==
    /\ confirmed
    /\ token # None
    /\ token[1] \in DOMAIN pending
    /\ now - pending[token[1]].created_at <= TTL_MINUTES
    /\ pending[token[1]].user_id = user_id

(* the token names a stored operation of another user, still within its TTL *)
Foreign(user_id, confirmed, token) ==
    /\ confirmed
    /\ token # None
    /\ token[1] \in DOMAIN pending
    /\ now - pending[token[1]].created_at <= TTL_MINUTES
    /\ pending[token[1]].user_id # user_id

(* the token names a stored operation whose TTL has passed *)
Late(confirmed, token) ==
    /\ confirmed
    /\ token # None
    /\ token[1] \in DOMAIN pending
    /\ now - pending[token[1]].created_at > TTL_MINUTES

Covered(token) ==
    IF token # None /\ token[1] \in DOMAIN shown THEN shown[token[1]] ELSE {}

Return(op, user_id, confirmed, token, result, its, projs, store) ==
    /\ items' = its
    /\ links' = Cascade(links, its)
    /\ projects' = projs
    /\ pending' = store
    /\ last' = [op |-> op, result |-> result,
                authorized |-> Authorized(user_id, confirmed, token),
                foreign |-> Foreign(user_id, confirmed, token),
                late |-> Late(confirmed, token),
                spent |-> (confirmed /\ token # None /\ token[1] \in DOMAIN execCount
                           /\ execCount[token[1]] > 0),
                action |-> IF token # None /\ token[1] \in DOMAIN pending
                           THEN pending[token[1]].action ELSE "none",
                changed |-> (its # items \/ projs # projects),
                stray |-> Affected(its) \ Covered(token)]

Unchanged(op, user_id, confirmed, token, result) ==
    /\ Return(op, user_id, confirmed, token, result, items, projects, pending)
    /\ UNCHANGED <<nextToken, shown, execCount>>

Executed(token) == execCount' = [execCount EXCEPT ![token] = @ + 1]

(* store_pending(PendingOperation(token=generate_token(...), ...)) *)
Issue(op, user_id, confirmed, token, action, filter, updates, matched_ids, covers) ==
    /\ nextToken < MaxTokens
    /\ LET tok == nextToken + 1 IN
       /\ Return(op, user_id, confirmed, token, "preview", items, projects,
                 store_pending(pending, tok,
                     PendingOperation(action, user_id, filter, updates,
                                      matched_ids, now), now))
       /\ nextToken' = tok
       /\ shown' = Insert(shown, tok, covers)
       /\ execCount' = Insert(execCount, tok, 0)

----------------------------------------------------------------------------
(* tools.py: the destructive and batch tools *)

UpdateKeys == {"status", "priority", "project_id", "tags", "due_at", "due_at_raw"}

update_values(updates) == [k \in DOMAIN updates \cap UpdateKeys |-> updates[k]]

BatchUpdateFails(values, rows) ==
    /\ "project_id" \in DOMAIN values
    /\ ForeignKeyFails(projects, values.project_id, rows)

execute_batch_update_items(user_id, filter, updates, confirmed, token) ==
    LET op == "batch_update_items" IN
    IF updates = NoUpdates
    THEN Unchanged(op, user_id, confirmed, token, "error_updates_required")
    ELSE IF confirmed /\ token # None
    THEN LET pnd == get_pending(pending, token[1], now) IN
         IF pnd = None
         THEN Unchanged(op, user_id, confirmed, token, "error_expired")
         ELSE IF wrong_user(pnd[1], user_id)
         THEN Unchanged(op, user_id, confirmed, token, "error_user")
         ELSE IF BatchUpdateFails(update_values(updates),
                                  BatchRows(items, pnd[1].matched_ids, user_id))
         THEN Unchanged(op, user_id, confirmed, token, "exception")
         ELSE /\ Return(op, user_id, confirmed, token, "success",
                        batch_update(items, pnd[1].matched_ids, user_id,
                                     update_values(updates)),
                        projects, clear_pending(pending, token[1]))
              /\ Executed(token[1])
              /\ UNCHANGED <<nextToken, shown>>
    ELSE LET matched == search_advanced(items, user_id, filter) IN
         IF matched = {}
         THEN Unchanged(op, user_id, confirmed, token, "no_match")
         ELSE Issue(op, user_id, confirmed, token, "update", filter, updates,
                    matched, matched)

execute_batch_delete_items(user_id, filter, confirmed, token) ==
    LET op == "batch_delete_items" IN
    IF confirmed /\ token # None
    THEN LET pnd == get_pending(pending, token[1], now) IN
         IF pnd = None
         THEN Unchanged(op, user_id, confirmed, token, "error_expired")
         ELSE IF wrong_user(pnd[1], user_id)
         THEN Unchanged(op, user_id, confirmed, token, "error_user")
         ELSE /\ Return(op, user_id, confirmed, token, "success",
                        batch_delete(items, pnd[1].matched_ids, user_id),
                        projects, clear_pending(pending, token[1]))
              /\ Executed(token[1])
              /\ UNCHANGED <<nextToken, shown>>
    ELSE LET matched == search_advanced(items, user_id, filter) IN
         IF matched = {}
         THEN Unchanged(op, user_id, confirmed, token, "no_match")
         ELSE Issue(op, user_id, confirmed, token, "delete", filter, None,
                    matched, matched)

manage_projects_delete(user_id, project_id, confirmed, token) ==
    LET op == "manage_projects_delete" IN
    IF confirmed /\ token # None
    THEN LET pnd == get_pending(pending, token[1], now) IN
         IF pnd = None
         THEN Unchanged(op, user_id, confirmed, token, "error_expired")
         ELSE IF wrong_user(pnd[1], user_id)
         THEN Unchanged(op, user_id, confirmed, token, "error_user")
         ELSE /\ Return(op, user_id, confirmed, token,
                        IF ProjectRows(projects, project_id, user_id) # {}
                        THEN "success" ELSE "not_deleted",
                        ProjectDeleteItems(items, projects, project_id, user_id),
                        ProjectDelete(projects, project_id, user_id),
                        clear_pending(pending, token[1]))
              /\ Executed(token[1])
              /\ UNCHANGED <<nextToken, shown>>
    ELSE IF ProjectGet(projects, project_id, user_id) = None
         THEN Unchanged(op, user_id, confirmed, token, "error_not_found")
         ELSE Issue(op, user_id, confirmed, token, "delete_project",
                    [project_id |-> project_id], None, {project_id},
                    ProjectItems(items, project_id, user_id))

manage_projects_move_items(user_id, project_id, target_project_id, confirmed, token) ==
    LET op == "manage_projects_move_items" IN
    IF confirmed /\ token # None
    THEN LET pnd == get_pending(pending, token[1], now) IN
         IF pnd = None
         THEN Unchanged(op, user_id, confirmed, token, "error_expired")
         ELSE IF wrong_user(pnd[1], user_id)
         THEN Unchanged(op, user_id, confirmed, token, "error_user")
         ELSE IF ForeignKeyFails(projects, target_project_id,
                                 ProjectItems(items, project_id, user_id))
         THEN Unchanged(op, user_id, confirmed, token, "exception")
         ELSE /\ Return(op, user_id, confirmed, token, "success",
                        move_items(items, project_id, target_project_id, user_id),
                        projects, clear_pending(pending, token[1]))
              /\ Executed(token[1])
              /\ UNCHANGED <<nextToken, shown>>
    ELSE IF get_items_count(items, project_id, user_id) = 0
         THEN Unchanged(op, user_id, confirmed, token, "no_match")
         ELSE Issue(op, user_id, confirmed, token, "move_items",
                    [project_id |-> project_id,
                     target_project_id |-> target_project_id],
                    None, {}, ProjectItems(items, project_id, user_id))

----------------------------------------------------------------------------
(* callbacks.py: the confirm and cancel buttons of a preview *)

handle_batch_confirm(user_id, token) ==
    LET op == "batch_confirm"
        pnd == get_pending(pending, token, now)
    IN
    IF pnd = None
    THEN Unchanged(op, user_id, TRUE, Some(token), "error_expired")
    ELSE IF wrong_user(pnd[1], user_id)
    THEN Unchanged(op, user_id, TRUE, Some(token), "error_user")
    ELSE LET p == pnd[1] IN
      CASE p.action = "update" ->
             IF BatchUpdateFails(update_values(p.updates),
                                 BatchRows(items, p.matched_ids, user_id))
             THEN Unchanged(op, user_id, TRUE, Some(token), "exception")
             ELSE /\ Return(op, user_id, TRUE, Some(token), "success",
                            batch_update(items, p.matched_ids, user_id,
                                         update_values(p.updates)),
                            projects, clear_pending(pending, token))
                  /\ Executed(token)
                  /\ UNCHANGED <<nextToken, shown>>
        [] p.action = "delete" ->
             /\ Return(op, user_id, TRUE, Some(token), "success",
                       batch_delete(items, p.matched_ids, user_id),
                       projects, clear_pending(pending, token))
             /\ Executed(token)
             /\ UNCHANGED <<nextToken, shown>>
        [] p.action = "delete_project" ->
             /\ Return(op, user_id, TRUE, Some(token),
                       IF ProjectRows(projects, p.filter.project_id, user_id) # {}
                       THEN "success" ELSE "not_deleted",
                       ProjectDeleteItems(items, projects, p.filter.project_id, user_id),
                       ProjectDelete(projects, p.filter.project_id, user_id),
                       clear_pending(pending, token))
             /\ Executed(token)
             /\ UNCHANGED <<nextToken, shown>>
        [] p.action = "move_items" ->
             IF ForeignKeyFails(projects, p.filter.target_project_id,
                                ProjectItems(items, p.filter.project_id, user_id))
             THEN Unchanged(op, user_id, TRUE, Some(token), "exception")
             ELSE /\ Return(op, user_id, TRUE, Some(token), "success",
                            move_items(items, p.filter.project_id,
                                       p.filter.target_project_id, user_id),
                            projects, clear_pending(pending, token))
                  /\ Executed(token)
                  /\ UNCHANGED <<nextToken, shown>>
        [] OTHER -> Unchanged(op, user_id, TRUE, Some(token), "unknown_operation")

handle_batch_cancel(user_id, token) ==
    /\ Return("batch_cancel", user_id, FALSE, Some(token), "cancelled",
              items, projects, clear_pending(pending, token))
    /\ UNCHANGED <<nextToken, shown, execCount>>

----------------------------------------------------------------------------
(* repository.py: calculate_next_due_date.  Minute 0 is Monday             *)
(* 2024-01-01T00:00Z; a datetime is its minute number.                     *)

MinutesPerDay == 24 * 60

(* the variant takes the last day of the sorted list *)
Max(S) == CHOOSE x \in S : \A y \in S : x >= y

Min(S) == CHOOSE x \in S : \A y \in S : x <= y

IsLeap(y) == (y % 4 = 0 /\ y % 100 # 0) \/ y % 400 = 0

DaysInYear(y) == IF IsLeap(y) THEN 366 ELSE 365

DaysInMonth(y, m) ==
    CASE m \in {1, 3, 5, 7, 8, 10, 12} -> 31
      [] m \in {4, 6, 9, 11} -> 30
      [] OTHER -> IF IsLeap(y) THEN 29 ELSE 28

RECURSIVE MonthOf(_, _, _)
MonthOf(y, m, d) ==
    IF d < DaysInMonth(y, m) THEN [year |-> y, month |-> m, day |-> d + 1]
    ELSE MonthOf(y, m + 1, d - DaysInMonth(y, m))

RECURSIVE YearOf(_, _)
YearOf(y, d) ==
    IF d < DaysInYear(y) THEN MonthOf(y, 1, d) ELSE YearOf(y + 1, d - DaysInYear(y))

(* datetime -> (year, month, day), for datetimes from 2024 on *)
DateOf(t) == YearOf(2024, t \div MinutesPerDay)

RECURSIVE DaysBeforeMonth(_, _)
DaysBeforeMonth(y, m) ==
    IF m = 1 THEN 0 ELSE DaysBeforeMonth(y, m - 1) + DaysInMonth(y, m - 1)

RECURSIVE DaysBeforeYear(_)
DaysBeforeYear(y) ==
    IF y = 2024 THEN 0 ELSE DaysBeforeYear(y - 1) + DaysInYear(y - 1)

(* datetime.replace(year=, month=, day=): the time of day is kept *)
Replace(t, year, month, day) ==
    (DaysBeforeYear(year) + DaysBeforeMonth(year, month) + day - 1) * MinutesPerDay
        + (t % MinutesPerDay)

weekday(t) == (t \div MinutesPerDay) % 7

(* datetime.fromisoformat(end_date_str) compared with an aware datetime:   *)
(* an unparsable string raises ValueError, a string without an offset      *)
(* parses to a naive datetime and the comparison raises TypeError; both    *)
(* are swallowed by the except clause.                                     *)
EndDateReadable(end_date) == end_date # None /\ end_date[1].kind = "aware"

NextByRule(current_due, recurrence) ==
    CASE recurrence.type = "daily" ->
           current_due + recurrence.interval * MinutesPerDay
      [] recurrence.type = "weekly" ->
           IF recurrence.days # {}
           THEN LET current_weekday == weekday(current_due)
                    later == { d \in recurrence.days : d > current_weekday }
                    delta == IF later # {}
                             THEN Min(later) - current_weekday
                             ELSE (7 * recurrence.interval) - current_weekday
                                      + Min(recurrence.days)
                IN current_due + delta * MinutesPerDay
           ELSE current_due + recurrence.interval * 7 * MinutesPerDay
      [] recurrence.type = "monthly" ->
           LET date == DateOf(current_due)
               month0 == date.month + recurrence.interval
               year == date.year + (month0 - 1) \div 12
               month == ((month0 - 1) % 12) + 1
               day == IF date.day < 28 THEN date.day ELSE 28
           IN Replace(current_due, year, month, day)
      [] OTHER -> current_due

calculate_next_due_date(current_due, recurrence) ==
    IF recurrence = None \/ current_due = None THEN None
    ELSE LET rule == recurrence[1]
             due == current_due[1]
             readable == EndDateReadable(rule.end_date)
         IN IF readable /\ due >= rule.end_date[1].at THEN None
            ELSE LET next_due == NextByRule(due, rule) IN
                 IF readable /\ next_due > rule.end_date[1].at THEN None
                 ELSE Some(next_due)

----------------------------------------------------------------------------
(* repository.py: ItemRepository.complete, as the rows after it.           *)

CompleteNextDue(its, item_id, user_id) ==
    IF ItemGet(its, item_id, user_id) = None THEN None
    ELSE LET item == its[item_id] IN
         IF item.recurrence # None /\ item.due_at # None
         THEN calculate_next_due_date(item.due_at, item.recurrence)
         ELSE None

CompletedRow(item, t) ==
    [item EXCEPT !.status = "done", !.completed_at = Some(t)]

(* the variant leaves remind_at of the new item unset *)
NextOccurrenceUnreminded(item, user_id, next_due) ==
    SetValues(ItemDefaults,
        [user_id |-> user_id, type |-> item.type, status |-> "inbox",
         title |-> item.title, content |-> item.content,
         due_at |-> next_due, due_at_raw |-> item.due_at_raw,
         priority |-> item.priority,
         project_id |-> item.project_id, tags |-> item.tags,
         recurrence |-> item.recurrence])

NextOccurrence(item, user_id, next_due) ==
    SetValues(ItemDefaults,
        [user_id |-> user_id, type |-> item.type, status |-> "inbox",
         title |-> item.title, content |-> item.content,
         due_at |-> next_due, due_at_raw |-> item.due_at_raw,
         remind_at |-> next_due, priority |-> item.priority,
         project_id |-> item.project_id, tags |-> item.tags,
         recurrence |-> item.recurrence])

complete(its, item_id, user_id, t, new_id) ==
    IF ItemGet(its, item_id, user_id) = None THEN its
    ELSE LET done == [its EXCEPT ![item_id] = CompletedRow(@, t)]
             next_due == CompleteNextDue(its, item_id, user_id)
         IN IF next_due = None THEN done
            ELSE Insert(done, new_id, NextOccurrence(done[item_id], user_id, next_due))

----------------------------------------------------------------------------
(* Calls that write the store without a confirmation *)

Plain(op, user_id, result, its, projs) ==
    /\ Return(op, user_id, FALSE, None, result, its, projs, pending)
    /\ UNCHANGED <<nextToken, shown, execCount>>

(* tools.py: manage_projects, action create *)
manage_projects_create_within(user_id, name, limit) ==
    /\ nextProjectId < limit
    /\ nextProjectId' = nextProjectId + 1
    /\ Plain("manage_projects_create", user_id, "success", items,
             Insert(projects, nextProjectId + 1, NewProject(user_id, name)))
    /\ UNCHANGED <<nextItemId, now, reminderVars, pending_clarifications, serviceVars>>

manage_projects_create(user_id, name) ==
    manage_projects_create_within(user_id, name, MaxProjects)

(* tools.py: save_item *)
execute_save_item(user_id, title, due_at, project_id) ==
    /\ nextItemId < MaxItems
    /\ nextItemId' = nextItemId + 1
    /\ IF ForeignKeyFails(projects, project_id, {nextItemId + 1})
       THEN Plain("save_item", user_id, "exception", items, projects)
       ELSE Plain("save_item", user_id, "success",
                  Insert(items, nextItemId + 1,
                         SetValues(ItemDefaults,
                             [user_id |-> user_id, due_at |-> due_at,
                              project_id |-> project_id,
                              original_input |-> Some(title)])),
                  projects)
    /\ UNCHANGED <<nextProjectId, now, reminderVars, pending_clarifications, serviceVars>>

(* api/routes/items.py: PATCH /api/items/{id} *)
update_item(user_id, item_id, update_data) ==
    /\ IF update_data = NoUpdates
       THEN Plain("update_item", user_id, "error_no_fields", items, projects)
       ELSE IF ItemGet(items, item_id, user_id) = None
       THEN Plain("update_item", user_id, "error_not_found", items, projects)
       ELSE IF /\ "project_id" \in DOMAIN update_data
               /\ ForeignKeyFails(projects, update_data.project_id, {item_id})
       THEN Plain("update_item", user_id, "exception", items, projects)
       ELSE Plain("update_item", user_id, "success",
                  ItemUpdate(items, item_id, user_id, update_data), projects)
    /\ UNCHANGED <<nextItemId, nextProjectId, now, reminderVars,
                   pending_clarifications, serviceVars>>

(* ItemRepository.complete run in a session that commits *)
complete_item(user_id, item_id) ==
    LET found == ItemGet(items, item_id, user_id) # None
        creates == CompleteNextDue(items, item_id, user_id) # None
        its == complete(items, item_id, user_id, now, nextItemId + 1)
    IN
    /\ creates => nextItemId < MaxRows
    /\ nextItemId' = IF creates THEN nextItemId + 1 ELSE nextItemId
    /\ items' = its
    /\ last' = [op |-> "complete_item",
                result |-> IF ~found THEN "not_found"
                           ELSE IF items[item_id].status = "done"
                           THEN "completed_again" ELSE "completed",
                item |-> item_id,
                before |-> ItemGet(items, item_id, user_id),
                created |-> DOMAIN its \ DOMAIN items]
    /\ UNCHANGED <<projects, nextProjectId, now, confirmVars, reminderVars,
                   pending_clarifications, serviceVars, links>>

(* callbacks.py handle_complete and the route PATCH /api/items/{id}/complete: *)
(* both take the pair that complete returns for an item; reading the item's  *)
(* attributes off the pair raises inside the session block, which rolls the  *)
(* completion back.                                                          *)
handle_complete(user_id, item_id) ==
    /\ Plain("handle_complete", user_id, "exception", items, projects)
    /\ UNCHANGED <<nextItemId, nextProjectId, now, reminderVars,
                   pending_clarifications, serviceVars>>

AdvanceTime(d, limit) ==
    /\ now + d <= limit
    /\ now' = now + d
    /\ UNCHANGED <<storeVars, confirmVars, last, reminderVars,
                   pending_clarifications, serviceVars, links>>

----------------------------------------------------------------------------
(* The tool protocol: the agent's tool calls, the preview buttons, the HTTP *)
(* client and the clock.                                                    *)

NoFilter == [k \in {} |-> 0]

Filters == {NoFilter, [project |-> 1]}

UpdateChoices == {NoUpdates, [status |-> "done"]}

TokenArgs == {None} \cup { Some(t) : t \in Tokens }

ProjectArgs == {None} \cup { Some(p) : p \in ProjectIds }

ProjectNames == {"home"}

ToolFrame == UNCHANGED <<nextItemId, nextProjectId, now, reminderVars,
                         pending_clarifications, serviceVars>>

(* Hosts of the URL fetcher's network: names the resolver answers for,    *)
(* 'localhost', and address literals.                                      *)

HostNames == {"example.com", "intranet.corp"}

PublicAddresses == {"93.184.216.34"}

(* ipaddress: is_private, is_loopback, is_link_local of the addresses used *)
PrivateAddresses == {"10.0.0.5", "127.0.0.1", "169.254.169.254"}

LoopbackAddresses == {"127.0.0.1"}

LinkLocalAddresses == {"169.254.169.254"}

Addresses == PublicAddresses \cup PrivateAddresses

Hosts == HostNames \cup {"localhost"} \cup Addresses

InitServices ==
    /\ dns = [h \in HostNames |-> Some("93.184.216.34")]
    /\ location = [h \in HostNames |-> None]
    /\ requested = {}
    /\ storage = EmptyStore
    /\ added = [u \in Users |-> <<>>]
    /\ requests = EmptyStore

NoLast ==
    [op |-> "none", result |-> "none", authorized |-> FALSE, foreign |-> FALSE,
     late |-> FALSE, spent |-> FALSE, action |-> "none", changed |-> FALSE,
     stray |-> {}]

Init ==
    /\ items = EmptyStore
    /\ projects = EmptyStore
    /\ nextItemId = 0
    /\ nextProjectId = 0
    /\ pending = EmptyStore
    /\ nextToken = 0
    /\ now = 0
    /\ last = NoLast
    /\ shown = EmptyStore
    /\ execCount = EmptyStore
    /\ delivered = EmptyStore
    /\ marked = EmptyStore
    /\ pending_clarifications = EmptyStore
    /\ links = {}
    /\ InitServices

BatchUpdateCall ==
    \E u \in Users, f \in Filters, up \in UpdateChoices, c \in BOOLEAN, t \in TokenArgs :
        execute_batch_update_items(u, f, up, c, t) /\ ToolFrame

BatchDeleteCall ==
    \E u \in Users, f \in Filters, c \in BOOLEAN, t \in TokenArgs :
        execute_batch_delete_items(u, f, c, t) /\ ToolFrame

ProjectDeleteCall ==
    \E u \in Users, p \in ProjectIds, c \in BOOLEAN, t \in TokenArgs :
        manage_projects_delete(u, p, c, t) /\ ToolFrame

MoveItemsCall ==
    \E u \in Users, p \in ProjectIds, q \in ProjectArgs, c \in BOOLEAN, t \in TokenArgs :
        manage_projects_move_items(u, p, q, c, t) /\ ToolFrame

ConfirmButton ==
    \E u \in Users, t \in Tokens : handle_batch_confirm(u, t) /\ ToolFrame

CancelButton ==
    \E u \in Users, t \in Tokens : handle_batch_cancel(u, t) /\ ToolFrame

ProjectCreateCall ==
    \E u \in Users, n \in ProjectNames : manage_projects_create(u, n)

SaveItemCall ==
    \E u \in Users, p \in ProjectArgs : execute_save_item(u, "text", None, p)


Clock == AdvanceTime(ClockStep, MaxTime)

Next ==
    \/ BatchUpdateCall
    \/ BatchDeleteCall
    \/ ProjectDeleteCall
    \/ MoveItemsCall
    \/ ConfirmButton
    \/ CancelButton
    \/ ProjectCreateCall
    \/ SaveItemCall
    \/ Clock

Spec == Init /\ [][Next]_vars

----------------------------------------------------------------------------
(* Properties of the tool protocol, stated over the record of the last call *)

ConfirmedOps ==
    {"batch_update_items", "batch_delete_items", "manage_projects_delete",
     "manage_projects_move_items", "batch_confirm"}

(* the calls that execute a stored operation of the given action *)
ActionOps ==
    [a \in {"update", "delete", "delete_project", "move_items", "none"} |->
        CASE a = "update" -> {"batch_update_items", "batch_confirm"}
          [] a = "delete" -> {"batch_delete_items", "batch_confirm"}
          [] a = "delete_project" -> {"manage_projects_delete", "batch_confirm"}
          [] a = "move_items" -> {"manage_projects_move_items", "batch_confirm"}
          [] OTHER -> {}]

Rejections == {"error_expired", "error_user", "error_updates_required"}

(* C1: a destructive or batch operation changes items or projects only when *)
(* it is called with confirmed = true and a token that is in the store, has *)
(* not expired and was issued to the calling user; every other call of      *)
(* these operations leaves items and projects as they were.                 *)
C1_ChangeOnlyWhenAuthorized ==
    (last.op \in ConfirmedOps /\ last.changed) => last.authorized

C1_Witness ==
    /\ last.op \in ConfirmedOps
    /\ last.changed
    /\ last.authorized
    /\ last.result = "success"

(* C2: a token yields at most one successful execution; an execute call     *)
(* that presents a token already executed is rejected and changes nothing.  *)
C2_TokenSingleUse ==
    /\ \A t \in DOMAIN execCount : execCount[t] <= 1
    /\ (last.op \in ConfirmedOps /\ last.spent) =>
           (last.result \in Rejections /\ ~last.changed)

C2_Witness ==
    /\ last.op \in ConfirmedOps
    /\ last.spent
    /\ last.result = "error_expired"
    /\ \E t \in DOMAIN execCount : execCount[t] = 1

(* C3: a confirmed execution acts on exactly the items the preview of its   *)
(* token covered: no item outside that set is changed or removed, also when *)
(* items entered the source project after the preview.                      *)
C3_ExecutesPreviewedIds ==
    (last.op \in ActionOps[last.action] /\ last.result = "success") =>
        last.stray = {}

(* C4: a confirmed call by a user other than the one the token was issued   *)
(* to is rejected and changes nothing, from the tool call and from the      *)
(* batch_confirm button alike.                                              *)
C4_ForeignTokenRejected ==
    (last.op \in ConfirmedOps /\ last.foreign) =>
        (last.result \in Rejections /\ ~last.changed)

C4_Witness ==
    /\ last.op = "batch_confirm"
    /\ last.foreign
    /\ last.result = "error_user"
    /\ items # EmptyStore

(* C5: an execute call made more than TTL_MINUTES after the preview fails   *)
(* and changes nothing.                                                     *)
C5_ExpiredTokenFails ==
    (last.op \in ConfirmedOps /\ last.late) =>
        (last.result \in Rejections /\ ~last.changed)

C5_Witness ==
    /\ last.op \in ConfirmedOps
    /\ last.late
    /\ last.result = "error_expired"
    /\ pending # EmptyStore

----------------------------------------------------------------------------
(* Completion: items with a due time, recurrence rules set through the     *)
(* PATCH route, completions, and the clock.                                *)

Daily == [type |-> "daily", interval |-> 1, days |-> {}, end_date |-> None]

PatchChoices ==
    {NoUpdates, [status |-> "done"], [recurrence |-> Some(Daily)]}

SaveDueItem ==
    \E u \in Users, d \in {None, Some(0)} : execute_save_item(u, "text", d, None)

PatchItem ==
    \E u \in Users, i \in ItemIds, up \in PatchChoices : update_item(u, i, up)

CompleteItem ==
    \E u \in Users, i \in ItemIds : complete_item(u, i)

CompleteButton ==
    \E u \in Users, i \in ItemIds : handle_complete(u, i)

NextComplete ==
    \/ SaveDueItem
    \/ PatchItem
    \/ CompleteItem
    \/ CompleteButton
    \/ Clock

SpecComplete == Init /\ [][NextComplete]_vars

(* C9: every item whose status is done has a completed_at, and it is not   *)
(* later than the current time.                                            *)
C9_DoneHasCompletedAt ==
    \A i \in DOMAIN items :
        items[i].status = "done" =>
            (items[i].completed_at # None /\ items[i].completed_at[1] <= now)

----------------------------------------------------------------------------
(* jobs/reminders.py: the reminder tick, and the snooze button that moves  *)
(* a reminder.                                                             *)

(* the time the query compares: remind_at, or due_at when remind_at is null *)
ReminderTime(item) == IF item.remind_at # None THEN item.remind_at ELSE item.due_at

get_due_items(its, t) ==
    { i \in DOMAIN its :
        /\ its[i].status \in {"inbox", "active"}
        /\ ReminderTime(its[i]) # None
        /\ ReminderTime(its[i])[1] >= t - WINDOW_BACK_MINUTES
        /\ ReminderTime(its[i])[1] <= t + WINDOW_AHEAD_MINUTES }

(* variant: the sentinel is the time of the tick *)
mark_reminded_now(item, t) == [item EXCEPT !.remind_at = Some(t)]

mark_reminded(item, t) == [item EXCEPT !.remind_at = Some(t - MinutesPerDay)]

(* the reminder time the client gave the item: what a sentinel replaced, or *)
(* what the row says (history only)                                         *)
ClientReminderTime(i) ==
    IF i \in DOMAIN marked THEN Some(marked[i]) ELSE ReminderTime(items[i])

(* the items a tick at the current time finds inside [d, d + 5 min] *)
DueNow ==
    { i \in DOMAIN items :
        /\ items[i].status \in {"inbox", "active"}
        /\ ClientReminderTime(i) # None
        /\ ClientReminderTime(i)[1] <= now
        /\ now <= ClientReminderTime(i)[1] + WINDOW_BACK_MINUTES }

(* One run of _check_reminders.  failed: the items whose send_message      *)
(* raises (caught in _send_reminder).  attempted: the items the loop       *)
(* reached; it is all of them unless a flush raises, which ends the loop   *)
(* and rolls the session back.                                             *)
check_reminders(failed, attempted, db_ok) ==
    LET selected == get_due_items(items, now)
        sent == attempted \ failed
    IN
    /\ attempted \subseteq selected
    /\ failed \subseteq attempted
    /\ db_ok => attempted = selected
    /\ ~db_ok => attempted # {}
    /\ items' = IF db_ok
                THEN [i \in DOMAIN items |->
                        IF i \in selected THEN mark_reminded(items[i], now)
                        ELSE items[i]]
                ELSE items
    /\ delivered' =
         [i \in DOMAIN delivered \cup sent |->
            (IF i \in DOMAIN delivered THEN delivered[i] ELSE {})
            \cup (IF i \in sent THEN {ReminderTime(items[i])[1]} ELSE {})]
    /\ marked' = IF db_ok
                 THEN [i \in DOMAIN marked \cup selected |->
                         IF i \in selected THEN ReminderTime(items[i])[1]
                         ELSE marked[i]]
                 ELSE marked
    /\ last' = [op |-> "tick", selected |-> selected,
                again |-> selected \cap DOMAIN marked, due |-> DueNow,
                committed |-> db_ok]
    /\ UNCHANGED <<projects, nextItemId, nextProjectId, now, confirmVars,
                   pending_clarifications, serviceVars, links>>

(* callbacks.py handle_snooze, duration 1h *)
handle_snooze(user_id, item_id) ==
    /\ items' = ItemUpdate(items, item_id, user_id,
                           [remind_at |-> Some(now + SNOOZE_MINUTES)])
    /\ marked' = IF ItemGet(items, item_id, user_id) = None THEN marked
                 ELSE Remove(marked, {item_id})
    /\ last' = [op |-> "snooze",
                result |-> IF ItemGet(items, item_id, user_id) = None
                           THEN "not_found" ELSE "snoozed"]
    /\ UNCHANGED <<projects, nextItemId, nextProjectId, now, confirmVars,
                   delivered, pending_clarifications, serviceVars, links>>

ReminderHorizon == SNOOZE_MINUTES + MaxTime

Tick ==
    \E failed \in SUBSET DOMAIN items, attempted \in SUBSET DOMAIN items,
       db_ok \in BOOLEAN :
        check_reminders(failed, attempted, db_ok)

SaveReminderItem ==
    \E u \in Users : execute_save_item(u, "text", Some(0), None)

Snooze ==
    \E u \in Users, i \in 1..MaxItems : handle_snooze(u, i)

PatchStatus ==
    \E u \in Users, i \in 1..MaxItems : update_item(u, i, [status |-> "done"])

(* besides Clock, a jump of the length of a snooze *)
Hour == AdvanceTime(SNOOZE_MINUTES, ReminderHorizon)

NextReminder ==
    \/ SaveReminderItem
    \/ PatchStatus
    \/ Snooze
    \/ Tick
    \/ Clock
    \/ Hour

SpecReminder == Init /\ [][NextReminder]_vars

(* C6: once a tick has notified an item and put the sentinel in remind_at, *)
(* no tick selects that item again while no client update has changed its  *)
(* remind_at.                                                              *)
C6_NoRepeatAfterSentinel ==
    /\ \A i \in DOMAIN marked : i \notin get_due_items(items, now)
    /\ last.op = "tick" => last.again = {}

C6_Witness ==
    /\ last.op = "tick"
    /\ last.selected = {}
    /\ \E i \in DOMAIN marked :
        /\ items[i].status = "inbox"
        /\ i \in DOMAIN delivered
        /\ marked[i] >= now - WINDOW_BACK_MINUTES
        /\ marked[i] < now

(* C7: every inbox or active item whose reminder time d lies in            *)
(* [now - 5 min, now] when a tick runs has had the reminder for d accepted *)
(* by the transport once that tick has run to its end.                     *)
C7_DueReminderDelivered ==
    (last.op = "tick" /\ last.committed) =>
        \A i \in last.due :
            i \in DOMAIN delivered /\ ClientReminderTime(i)[1] \in delivered[i]

----------------------------------------------------------------------------
(* handlers/message.py: a text message, and the clarification buttons of   *)
(* callbacks.py.  A text is the sequence of its lines, already stripped.   *)

Plainly == <<"buy milk">>

WithUrl == <<"read http://example.org">>

Texts == {Plainly, WithUrl}

extract_urls(text) == IF text = WithUrl THEN <<"http://example.org">> ELSE <<>>

(* text = f"{text}\n\n--- <link content> ---\n{result.text}" *)
Enrich(text, page) == text \o <<"", "--- link content ---", page>>

(* what ContentClassifier.classify may hand back as the type: a stored     *)
(* type, or "chat", which the prompt allows and the table does not         *)
ClassifiedTypes == {"note", "chat"}

Intents == {"save", "query", "action", "chat", "unclear"}

Heard(op, user_id, text, reply, created) ==
    last' = [op |-> op, user |-> user_id, text |-> text, reply |-> reply,
             created |-> created]

(* process_action hands the message to the agent loop, whose reply is     *)
(* taken as given ("agent").                                               *)

(* process_save: the reply it sends and the row it creates; the INSERT of  *)
(* a type outside valid_type raises and the handler ends without a reply.  *)
process_save(op, user_id, message_text, text, type) ==
    /\ nextItemId < MaxItems
    /\ nextItemId' = nextItemId + 1
    /\ IF type \notin ValidTypes
       THEN /\ items' = items
            /\ Heard(op, user_id, message_text, "none", None)
       ELSE /\ items' = Insert(items, nextItemId + 1,
                               SetValues(ItemDefaults,
                                   [user_id |-> user_id, type |-> type,
                                    original_input |-> Some(text)]))
            /\ Heard(op, user_id, message_text, "saved", Some(nextItemId + 1))

handle_text(user_id, text, page, intent, type) ==
    /\ IF user_id \in DOMAIN pending_clarifications
       THEN /\ pending_clarifications' = Remove(pending_clarifications, {user_id})
            /\ process_save("handle_text", user_id, text,
                            pending_clarifications[user_id], type)
       ELSE LET enriched == IF extract_urls(text) # <<>> /\ page # None
                            THEN Enrich(text, page[1]) ELSE text
            IN
            CASE intent = "unclear" ->
                   /\ pending_clarifications' =
                          Insert(pending_clarifications, user_id, enriched)
                   /\ Heard("handle_text", user_id, text, "clarify", None)
                   /\ UNCHANGED <<items, nextItemId>>
              [] intent = "save" ->
                   /\ process_save("handle_text", user_id, text, enriched, type)
                   /\ UNCHANGED pending_clarifications
              [] intent = "query" ->
                   /\ Heard("handle_text", user_id, text, "search_results", None)
                   /\ UNCHANGED <<items, nextItemId, pending_clarifications>>
              [] intent = "action" ->
                   /\ Heard("handle_text", user_id, text, "agent", None)
                   /\ UNCHANGED <<items, nextItemId, pending_clarifications>>
              [] OTHER ->
                   /\ Heard("handle_text", user_id, text, "chat", None)
                   /\ UNCHANGED <<items, nextItemId, pending_clarifications>>
    /\ UNCHANGED <<projects, nextProjectId, now, confirmVars, reminderVars, links,
                   serviceVars>>

handle_clarification(user_id, action, type) ==
    /\ pending_clarifications' = Remove(pending_clarifications, {user_id})
    /\ IF user_id \notin DOMAIN pending_clarifications
       THEN /\ Heard("clarification", user_id, None, "resend", None)
            /\ UNCHANGED <<items, nextItemId>>
       ELSE IF action = "save"
       THEN process_save("clarification", user_id,
                         pending_clarifications[user_id],
                         pending_clarifications[user_id], type)
       ELSE /\ Heard("clarification", user_id, pending_clarifications[user_id],
                     "search_later", None)
            /\ UNCHANGED <<items, nextItemId>>
    /\ UNCHANGED <<projects, nextProjectId, now, confirmVars, reminderVars, links,
                   serviceVars>>

Pages == {None, Some("page")}

TextMessage ==
    \E u \in Users, text \in Texts, page \in Pages, intent \in Intents,
       type \in ClassifiedTypes :
        handle_text(u, text, page, intent, type)

ClarifyButton ==
    \E u \in Users, action \in {"save", "query"}, type \in ClassifiedTypes :
        handle_clarification(u, action, type)

NextIngest ==
    \/ TextMessage
    \/ ClarifyButton

SpecIngest == Init /\ [][NextIngest]_vars

(* the stored input is the message, or the message followed by the content *)
(* of its link                                                             *)
Keeps(original_input, text) ==
    /\ original_input # None
    /\ Len(original_input[1]) >= Len(text)
    /\ SubSeq(original_input[1], 1, Len(text)) = text

(* replies that tell the user what became of the message other than a save *)
Answers == {"clarify", "search_results", "agent", "chat", "not_saved"}

(* C8: when the handling of an accepted text message ends, an item whose   *)
(* original_input is that message has been stored, or the user has been    *)
(* told that the message was not saved.                                    *)
C8_InputSavedOrUserTold ==
    last.op = "handle_text" =>
        \/ /\ last.created # None
           /\ Keeps(items[last.created[1]].original_input, last.text)
        \/ last.reply \in Answers

(* a message that arrives while a clarification is pending: the reply     *)
(* confirms a save, and what was saved is the earlier message              *)
C8_PendingCase ==
    /\ last.op = "handle_text"
    /\ last.reply = "saved"
    /\ last.created # None
    /\ ~Keeps(items[last.created[1]].original_input, last.text)

----------------------------------------------------------------------------
(* The captured input: items saved by the agent, then every call that can  *)
(* write an existing item: the PATCH route with a request body, the batch  *)
(* update tool and its confirm button, and completion.                     *)

(* api/schemas.py ItemUpdate: the fields the request model declares; the   *)
(* variant keeps the undeclared keys of the body too                       *)
ItemUpdateFields ==
    {"title", "content", "type", "status", "due_at", "due_at_raw", "tags",
     "project_id", "priority", "recurrence"}

model_dump_extra(body) == body

(* data.model_dump(exclude_unset=True) of the parsed request body *)
model_dump(body) == [k \in DOMAIN body \cap ItemUpdateFields |-> body[k]]

Rewrite == [original_input |-> Some("other")]

RequestBodies ==
    {Rewrite, [status |-> "done", original_input |-> Some("other")],
     [recurrence |-> Some(Daily)]}

InputUpdates == {Rewrite, [status |-> "done", original_input |-> Some("other")]}

PatchRequest ==
    \E u \in Users, i \in ItemIds, body \in RequestBodies :
        update_item(u, i, model_dump(body))

InputBatchUpdate ==
    \E u \in Users, up \in InputUpdates, c \in BOOLEAN, t \in TokenArgs :
        execute_batch_update_items(u, NoFilter, up, c, t) /\ ToolFrame

NextInput ==
    \/ SaveDueItem
    \/ PatchRequest
    \/ InputBatchUpdate
    \/ ConfirmButton
    \/ CompleteItem

SpecInput == Init /\ [][NextInput]_vars

(* C11: an item saved with a text holds that text as original_input, and   *)
(* no later step (PATCH, batch update, confirm button, completion) changes *)
(* the original_input of an item that stays in the store.                  *)
C11_OriginalInputKept ==
    [][ /\ \A i \in DOMAIN items \cap DOMAIN items' :
              items'[i].original_input = items[i].original_input
        /\ \A i \in DOMAIN items' \ DOMAIN items :
              last'.op = "save_item" => items'[i].original_input = Some("text")
      ]_vars

(* an item written by a PATCH whose body also carried original_input *)
C11_Witness ==
    /\ last.op = "update_item"
    /\ last.result = "success"
    /\ \E i \in DOMAIN items :
          /\ items[i].status = "done"
          /\ items[i].completed_at = None
          /\ items[i].original_input = Some("text")

----------------------------------------------------------------------------
(* ai/agent.py and ai/linker.py: one ingestion request.  The model's       *)
(* answer is a list of item data and a list of suggested links; both are   *)
(* inputs.  All statements of a request run in one session: a statement    *)
(* that fails leaves the transaction unusable, every later statement of    *)
(* the session fails too, and nothing of the request is committed.         *)

MaxBatch == 2
MaxLinks == 2

(* an entry of the answer that is not a dict *)
Malformed == [not_a_dict |-> TRUE]

(* the INSERT of an item row fails: CHECK valid_type or the project key *)
ItemInsertFails(projs, row) ==
    \/ row.type \notin ValidTypes
    \/ ForeignKeyFails(projs, row.project_id, {0})

(* the row item_repo.create is called with *)
AgentRow(user_id, original_text, item_data) ==
    SetValues(ItemDefaults,
        [user_id |-> user_id, type |-> item_data.type, status |-> "inbox",
         project_id |-> item_data.project_id,
         original_input |-> Some(original_text)])

(* an entry that is skipped (continue) adds nothing to created_items *)
SkippedEntry(created) == created

(* _persist_items: the loop over items_data.  st.rows are the rows written *)
(* in the session, st.created the list created_items (each entry with the  *)
(* position its data had in the answer), st.ok whether the transaction is  *)
(* still usable, st.next the last id the sequence gave out.                *)
RECURSIVE persist_items(_, _, _, _, _, _)
persist_items(st, projs, user_id, original_text, items_data, k) ==
    IF k > Len(items_data) THEN st
    ELSE LET item_data == items_data[k] IN
         IF item_data = Malformed
         THEN persist_items([st EXCEPT !.created = SkippedEntry(@)],
                            projs, user_id, original_text, items_data, k + 1)
         ELSE IF ~st.ok
         THEN persist_items([st EXCEPT !.created = SkippedEntry(@)],
                            projs, user_id, original_text, items_data, k + 1)
         ELSE LET row == AgentRow(user_id, original_text, item_data)
                  id == st.next + 1
              IN IF ItemInsertFails(projs, row)
                 THEN persist_items([st EXCEPT !.ok = FALSE, !.next = id,
                                               !.created = SkippedEntry(@)],
                                    projs, user_id, original_text, items_data, k + 1)
                 ELSE persist_items([st EXCEPT !.rows = Insert(@, id, row),
                                               !.next = id,
                                               !.created = Append(@, [id |-> id, index |-> k - 1])],
                                    projs, user_id, original_text, items_data, k + 1)

(* create_links_batch: the list links_to_create *)
RECURSIVE links_to_create(_, _, _)
links_to_create(created_items, suggested_links, k) ==
    IF k > Len(suggested_links) THEN <<>>
    ELSE LET suggestion == suggested_links[k]
             rest == links_to_create(created_items, suggested_links, k + 1)
         IN IF \/ suggestion.new_item_index < 0
               \/ suggestion.new_item_index >= Len(created_items)
            THEN rest
            ELSE IF suggestion.existing_item_id = 0
            THEN rest
            ELSE <<ItemLink(created_items[suggestion.new_item_index + 1].id,
                            suggestion.existing_item_id)>> \o rest

(* ItemLinkRepository.create_batch: all rows are added, then one flush *)
CreateBatchFails(lks, its, new_links) ==
    \/ \E k \in DOMAIN new_links : LinkInsertFails(lks, its, new_links[k])
    \/ \E j, k \in DOMAIN new_links : j # k /\ new_links[j] = new_links[k]

Range(seq) == { seq[k] : k \in DOMAIN seq }

(* What a request is recorded as having done (history only): positions    *)
(* count from 0, as new_item_index does.                                   *)
Positions(items_data) == { k - 1 : k \in DOMAIN items_data }

(* the positions whose data is a dict and whose row the table accepts *)
Sound(projs, user_id, text, items_data) ==
    { k \in Positions(items_data) :
        /\ items_data[k + 1] # Malformed
        /\ ~ItemInsertFails(projs, AgentRow(user_id, text, items_data[k + 1])) }

(* for each suggestion that became a link: the position it named and the  *)
(* position of the data its source item was created from                  *)
Attached(created_items, suggested_links) ==
    { <<s.new_item_index, created_items[s.new_item_index + 1].index>> :
        s \in { t \in Range(suggested_links) :
                  /\ t.new_item_index < Len(created_items)
                  /\ t.existing_item_id # 0 } }

(* the links of the suggestions whose index is in range and whose          *)
(* existing_item_id is an item of the requesting user                      *)
Valid(its, user_id, created_items, suggested_links) ==
    { ItemLink(created_items[s.new_item_index + 1].id, s.existing_item_id) :
        s \in { t \in Range(suggested_links) :
                  /\ t.new_item_index < Len(created_items)
                  /\ ItemGet(its, t.existing_item_id, user_id) # None } }

(* IntelligentAgent.process, stages 3 to 5, inside get_session() *)
process(user_id, text, items_data, suggested_links) ==
    LET st == persist_items([rows |-> EmptyStore, created |-> <<>>, ok |-> TRUE,
                             next |-> nextItemId],
                            projects, user_id, text, items_data, 1)
        its == [i \in DOMAIN items \cup DOMAIN st.rows |->
                   IF i \in DOMAIN items THEN items[i] ELSE st.rows[i]]
        wanted == IF st.created # <<>> /\ suggested_links # <<>>
                  THEN links_to_create(st.created, suggested_links, 1) ELSE <<>>
        links_ok == st.ok /\ ~CreateBatchFails(links, its, wanted)
        committed == st.ok /\ (wanted # <<>> => links_ok)
    IN
    /\ st.next <= MaxItems
    /\ nextItemId' = st.next
    /\ items' = IF committed THEN its ELSE items
    /\ links' = IF committed THEN links \cup Range(wanted) ELSE links
    /\ last' = [op |-> "process", user |-> user_id,
                result |-> IF committed THEN "ok" ELSE "exception",
                created |-> st.created,
                sound |-> Sound(projects, user_id, text, items_data),
                failed |-> Positions(items_data) \ (Sound(projects, user_id, text, items_data)
                                                    \cup {k \in Positions(items_data) :
                                                             items_data[k + 1] = Malformed}),
                persisted |-> IF committed THEN { c.index : c \in Range(st.created) } ELSE {},
                attached |-> IF committed
                             THEN Attached(st.created, suggested_links) ELSE {},
                valid |-> Valid(items, user_id, st.created, suggested_links),
                made |-> IF committed THEN Range(wanted) \ links ELSE {}]
    /\ UNCHANGED <<projects, nextProjectId, now, confirmVars, reminderVars,
                   pending_clarifications, serviceVars>>

(* callbacks.py handle_link_action: the button link:confirm:item:related *)
handle_link_action(user_id, action, item_id, related_id) ==
    LET l == ItemLink(item_id, related_id)
        fails == action = "confirm" /\ LinkInsertFails(links, items, l)
    IN
    /\ links' = IF action = "confirm" /\ ~fails THEN links \cup {l} ELSE links
    /\ last' = [op |-> "link_action", user |-> user_id,
                result |-> IF fails THEN "exception" ELSE action]
    /\ UNCHANGED <<storeVars, now, confirmVars, reminderVars,
                   pending_clarifications, serviceVars>>

SeqsUpTo(S, n) == UNION { [1..k -> S] : k \in 0..n }

ItemData ==
    {Malformed, [type |-> "note", project_id |-> None],
     [type |-> "note", project_id |-> Some(1)]}

(* suggestions: in range with an id, out of range, and without an id *)
Suggested ==
    [new_item_index : 0..(MaxBatch - 1), existing_item_id : 1..MaxItems]
    \cup {[new_item_index |-> MaxBatch, existing_item_id |-> 1],
          [new_item_index |-> 0, existing_item_id |-> 0]}

(* answers: a malformed entry is followed by a dict *)
Batches ==
    { b \in SeqsUpTo(ItemData, MaxBatch) : b = <<>> \/ b[Len(b)] # Malformed }

(* suggestion lists: any one suggestion, or any followed by a plain one *)
SuggestionLists ==
    { l \in SeqsUpTo(Suggested, MaxLinks) :
        Len(l) = MaxLinks => l[MaxLinks] = [new_item_index |-> 0, existing_item_id |-> 1] }

LinkPairs == {<<1, 2>>, <<2, 1>>}

Message ==
    \E u \in Users, items_data \in Batches, suggested_links \in SuggestionLists :
        process(u, "text", items_data, suggested_links)

LinkButton ==
    \E u \in Users, a \in {"confirm", "reject"}, l \in LinkPairs :
        handle_link_action(u, a, l[1], l[2])

NextAgent ==
    \/ ProjectCreateCall
    \/ Message
    \/ LinkButton

SpecAgent == Init /\ [][NextAgent]_vars

(* C13: every item with a project is in a project of its own user, and    *)
(* the two items of every link belong to one user.                         *)
C13_ReferencesSameUser ==
    /\ \A i \in DOMAIN items :
          items[i].project_id # None =>
              /\ items[i].project_id[1] \in DOMAIN projects
              /\ projects[items[i].project_id[1]].user_id = items[i].user_id
    /\ \A l \in links :
          items[l.item_id].user_id = items[l.related_item_id].user_id

(* the items of one request get their ids in the order of the answer *)
PersistedInOrder ==
    last.op = "process" =>
        \A j, k \in DOMAIN last.created :
            j < k => /\ last.created[j].index < last.created[k].index
                     /\ last.created[j].id < last.created[k].id

C15_OnlyFailedItemSkipped ==
    (last.op = "process" /\ last.failed # {}) =>
        /\ last.sound \subseteq last.persisted
        /\ \A c \in Range(last.created) :
              c.index \in last.sound =>
                  (c.id \in DOMAIN items /\ items[c.id].status = "inbox")

----------------------------------------------------------------------------
(* User scoping: the repository operations called for a user with any id,  *)
(* on a store that ingestion requests and project creation have filled.    *)

(* a call for user_id that returned the items shown and left the tables    *)
(* its and projs (history: what it showed or changed of another user)      *)
Scoped(op, user_id, shown_items, shown_projects, its, projs) ==
    /\ items' = its
    /\ projects' = projs
    /\ links' = Cascade(links, its)
    /\ last' = [op |-> op, user |-> user_id,
                leaked |-> { i \in shown_items : items[i].user_id # user_id },
                leaked_projects |->
                    { q \in shown_projects : projects[q].user_id # user_id },
                harmed |-> { i \in Affected(its) : items[i].user_id # user_id },
                harmed_projects |->
                    { q \in DOMAIN projects :
                        /\ projects[q].user_id # user_id
                        /\ (q \notin DOMAIN projs \/ projs[q] # projects[q]) }]
    /\ UNCHANGED <<nextProjectId, now, confirmVars, reminderVars,
                   pending_clarifications, serviceVars>>

(* ItemRepository.get, update, delete, complete *)
RepoGet(user_id, item_id) ==
    /\ Scoped("get", user_id,
              IF ItemGet(items, item_id, user_id) = None THEN {} ELSE {item_id}, {},
              items, projects)
    /\ UNCHANGED nextItemId

RepoUpdate(user_id, item_id, values) ==
    /\ Scoped("update", user_id,
              IF ItemGet(items, item_id, user_id) = None THEN {} ELSE {item_id}, {},
              ItemUpdate(items, item_id, user_id, values), projects)
    /\ UNCHANGED nextItemId

RepoDelete(user_id, item_id) ==
    /\ Scoped("delete", user_id, {}, {},
              batch_delete(items, {item_id}, user_id), projects)
    /\ UNCHANGED nextItemId

RepoComplete(user_id, item_id) ==
    LET creates == CompleteNextDue(items, item_id, user_id) # None IN
    /\ creates => nextItemId < MaxRows
    /\ nextItemId' = IF creates THEN nextItemId + 1 ELSE nextItemId
    /\ Scoped("complete", user_id,
              IF ItemGet(items, item_id, user_id) = None THEN {} ELSE {item_id}, {},
              complete(items, item_id, user_id, now, nextItemId + 1), projects)

(* ItemRepository.batch_update, batch_delete *)
RepoBatchUpdate(user_id, item_ids, values) ==
    /\ Scoped("batch_update", user_id, {}, {},
              batch_update(items, item_ids, user_id, values), projects)
    /\ UNCHANGED nextItemId

RepoBatchDelete(user_id, item_ids) ==
    /\ Scoped("batch_delete", user_id, {}, {},
              batch_delete(items, item_ids, user_id), projects)
    /\ UNCHANGED nextItemId

(* ProjectRepository.get, delete, move_items *)
RepoProjectGet(user_id, project_id) ==
    /\ Scoped("project_get", user_id, {},
              ProjectRows(projects, project_id, user_id), items, projects)
    /\ UNCHANGED nextItemId

RepoProjectDelete(user_id, project_id) ==
    /\ Scoped("project_delete", user_id, {}, {},
              ProjectDeleteItems(items, projects, project_id, user_id),
              ProjectDelete(projects, project_id, user_id))
    /\ UNCHANGED nextItemId

RepoMoveItems(user_id, project_id) ==
    /\ Scoped("move_items", user_id, {}, {},
              move_items(items, project_id, None, user_id), projects)
    /\ UNCHANGED nextItemId

(* api/routes/items.py get_related_items: the linked part of the answer *)
get_related_items(user_id, item_id) ==
    /\ Scoped("related", user_id,
              IF ItemGet(items, item_id, user_id) = None THEN {}
              ELSE get_item_links(links, items, item_id),
              {}, items, projects)
    /\ UNCHANGED nextItemId

(* an ingestion request of one item with one suggested link *)
LinkingMessage ==
    \E u \in Users, e \in 1..MaxItems :
        process(u, "text", <<[type |-> "note", project_id |-> None]>>,
                <<[new_item_index |-> 0, existing_item_id |-> e]>>)

ItemCall ==
    \E u \in Users, i \in ItemIds :
        \/ RepoGet(u, i)
        \/ RepoUpdate(u, i, [status |-> "active"])
        \/ RepoDelete(u, i)
        \/ RepoComplete(u, i)

BatchCall ==
    \E u \in Users, ids \in SUBSET (1..MaxItems) :
        \/ RepoBatchUpdate(u, ids, [status |-> "active"])
        \/ RepoBatchDelete(u, ids)

ProjectCall ==
    \E u \in Users, q \in ProjectIds :
        \/ RepoProjectGet(u, q)
        \/ RepoProjectDelete(u, q)
        \/ RepoMoveItems(u, q)

RelatedCall ==
    \E u \in Users, i \in ItemIds : get_related_items(u, i)

NextScope ==
    \/ ProjectCreateCall
    \/ LinkingMessage
    \/ ItemCall
    \/ BatchCall
    \/ ProjectCall
    \/ RelatedCall

SpecScope == Init /\ [][NextScope]_vars

ScopedOps ==
    {"get", "update", "delete", "complete", "batch_update", "batch_delete",
     "project_get", "project_delete", "move_items", "related"}

ScopedById ==
    (last.op \in ScopedOps \ {"related"}) =>
        /\ last.leaked = {}
        /\ last.leaked_projects = {}
        /\ last.harmed = {}
        /\ last.harmed_projects = {}

----------------------------------------------------------------------------
(* Recurrence: one recurring item with a due time and a rule drawn from    *)
(* the sets below, and the completions that follow it.                     *)

MaxInterval == 2

(* due days counted from 2024-01-01: Monday, Wednesday, Sunday, January    *)
(* 29 and 31, March 31, December 31; the time of day is 09:00              *)
DueDays == {0, 2, 6, 28, 30, 90, 365}

DueMinute == 540

Dues == { d * MinutesPerDay + DueMinute : d \in DueDays }

(* end_date of a rule: absent, an ISO string with an offset, or an ISO     *)
(* date string; both name 2024-02-05                                       *)
EndDay == 35

EndDates ==
    {None, Some([kind |-> "aware", at |-> EndDay * MinutesPerDay]),
     Some([kind |-> "naive", at |-> EndDay * MinutesPerDay])}

DaySets == {{}, {0, 2}, {2, 4}, {6}}

Rules ==
    [type : {"daily", "monthly"}, interval : 1..MaxInterval, days : {{}},
     end_date : EndDates]
    \cup [type : {"weekly"}, interval : 1..MaxInterval, days : DaySets,
          end_date : EndDates]

RecurringItem(due_at, recurrence) ==
    SetValues(ItemDefaults,
        [user_id |-> 1, type |-> "task", title |-> Some("water plants"),
         content |-> Some("balcony"), due_at |-> Some(due_at),
         due_at_raw |-> Some("at nine"), remind_at |-> Some(due_at),
         priority |-> Some("high"), tags |-> <<"home">>,
         recurrence |-> Some(recurrence), original_input |-> Some("text")])

InitRecur ==
    /\ \E d \in Dues, r \in Rules : items = Insert(EmptyStore, 1, RecurringItem(d, r))
    /\ nextItemId = 1
    /\ projects = EmptyStore
    /\ nextProjectId = 0
    /\ pending = EmptyStore
    /\ nextToken = 0
    /\ now = 0
    /\ last = NoLast
    /\ shown = EmptyStore
    /\ execCount = EmptyStore
    /\ delivered = EmptyStore
    /\ marked = EmptyStore
    /\ pending_clarifications = EmptyStore
    /\ links = {}
    /\ InitServices

NextRecur ==
    \/ CompleteItem
    \/ Clock

SpecRecur == InitRecur /\ [][NextRecur]_vars

(* the completed item as it was, its rule, and the item the call created *)
Recurred ==
    /\ last.op = "complete_item"
    /\ last.created # {}

Before == last.before[1]

Rule == Before.recurrence[1]

Created == items[CHOOSE c \in last.created : TRUE]

MonthNumber(date) == date.year * 12 + date.month

(* C18: for a monthly rule the next occurrence lies interval months after  *)
(* the due date, at the same time, on the same day of the month when the   *)
(* target month has that day and on the 28th when it has not.              *)
C18_MonthlySameDayOrClamp ==
    (Recurred /\ Rule.type = "monthly") =>
        LET from == DateOf(Before.due_at[1])
            to == DateOf(Created.due_at[1])
        IN /\ MonthNumber(to) = MonthNumber(from) + Rule.interval
           /\ Created.due_at[1] % MinutesPerDay = Before.due_at[1] % MinutesPerDay
           /\ to.day = IF from.day <= DaysInMonth(to.year, to.month)
                       THEN from.day ELSE 28

(* a step from the 28th stays on the 28th *)
MonthlyStableOn28 ==
    (Recurred /\ Rule.type = "monthly" /\ DateOf(Before.due_at[1]).day = 28) =>
        DateOf(Created.due_at[1]).day = 28

(* weeks and days of the week counted from Monday 2024-01-01 *)
WeekOf(t) == t \div (7 * MinutesPerDay)

DayInWeek(t) == (t \div MinutesPerDay) % 7

(* C19: for a weekly rule with listed days the next occurrence is, at the  *)
(* same time of day, on the smallest listed weekday after the current      *)
(* weekday in the same week, and when there is none, on the smallest       *)
(* listed weekday of the week interval weeks later; without listed days    *)
(* it is exactly interval weeks later.                                     *)
C19_WeeklyNextListedDay ==
    (Recurred /\ Rule.type = "weekly") =>
        LET due == Before.due_at[1]
            next == Created.due_at[1]
            later == { d \in Rule.days : d > DayInWeek(due) }
        IN IF Rule.days = {}
           THEN next = due + Rule.interval * 7 * MinutesPerDay
           ELSE /\ next % MinutesPerDay = due % MinutesPerDay
                /\ DayInWeek(next) \in Rule.days
                /\ IF later # {}
                   THEN /\ WeekOf(next) = WeekOf(due)
                        /\ \A d \in later : DayInWeek(next) <= d
                   ELSE /\ WeekOf(next) = WeekOf(due) + Rule.interval
                        /\ \A d \in Rule.days : DayInWeek(next) <= d

(* a step that wrapped into the week two weeks later, onto the first of    *)
(* two listed days                                                         *)
C19_Witness ==
    /\ Recurred
    /\ Rule.type = "weekly"
    /\ Rule.days = {0, 2}
    /\ Rule.interval = 2
    /\ DayInWeek(Before.due_at[1]) = 6
    /\ DayInWeek(Created.due_at[1]) = 0
    /\ WeekOf(Created.due_at[1]) = WeekOf(Before.due_at[1]) + 2

Inherited ==
    {"type", "title", "content", "due_at_raw", "priority", "project_id", "tags",
     "recurrence"}

----------------------------------------------------------------------------
(* Project names: creation and renaming through the manage_projects tool   *)
(* and through the HTTP routes.  The table projects has no unique          *)
(* constraint on (user_id, name).                                          *)

MaxNamedProjects == 2

NamedProjectIds == 1..MaxNamedProjects

Names == {"home", "work"}

(* ProjectRepository.get_by_name: the rows of the user with that name *)
get_by_name(projs, name, user_id) ==
    { q \in DOMAIN projs : projs[q].name = name /\ projs[q].user_id = user_id }

(* ProjectRepository.update *)
ProjectUpdate(projs, project_id, user_id, values) ==
    IF ProjectGet(projs, project_id, user_id) = None THEN projs
    ELSE [projs EXCEPT ![project_id] = SetValues(@, values)]

ProjectFrame ==
    UNCHANGED <<nextItemId, nextProjectId, now, reminderVars,
                pending_clarifications, serviceVars>>

(* tools.py: manage_projects, actions rename and update with a name *)
manage_projects_rename(user_id, project_id, name) ==
    /\ IF ProjectGet(projects, project_id, user_id) = None
       THEN Plain("manage_projects_rename", user_id, "error_not_found", items, projects)
       ELSE Plain("manage_projects_rename", user_id, "success", items,
                  ProjectUpdate(projects, project_id, user_id, [name |-> name]))
    /\ ProjectFrame

(* api/routes/projects.py: POST /api/projects *)
create_project(user_id, name) ==
    IF get_by_name(projects, name, user_id) # {}
    THEN Plain("create_project", user_id, "error_exists", items, projects)
         /\ ProjectFrame
    ELSE /\ nextProjectId < MaxNamedProjects
         /\ nextProjectId' = nextProjectId + 1
         /\ Plain("create_project", user_id, "success", items,
                  Insert(projects, nextProjectId + 1, NewProject(user_id, name)))
         /\ UNCHANGED <<nextItemId, now, reminderVars, pending_clarifications, serviceVars>>

(* api/routes/projects.py: PATCH /api/projects/{id} with a name *)
update_project(user_id, project_id, name) ==
    /\ IF get_by_name(projects, name, user_id) \ {project_id} # {}
       THEN Plain("update_project", user_id, "error_exists", items, projects)
       ELSE IF ProjectGet(projects, project_id, user_id) = None
       THEN Plain("update_project", user_id, "error_not_found", items, projects)
       ELSE Plain("update_project", user_id, "success", items,
                  ProjectUpdate(projects, project_id, user_id, [name |-> name]))
    /\ ProjectFrame

ToolCreate ==
    \E u \in Users, n \in Names : manage_projects_create_within(u, n, MaxNamedProjects)

ToolRename ==
    \E u \in Users, q \in NamedProjectIds, n \in Names : manage_projects_rename(u, q, n)

RouteCreate ==
    \E u \in Users, n \in Names : create_project(u, n)

RouteUpdate ==
    \E u \in Users, q \in NamedProjectIds, n \in Names : update_project(u, q, n)

NextProjects ==
    \/ ToolCreate
    \/ ToolRename
    \/ RouteCreate
    \/ RouteUpdate

SpecProjects == Init /\ [][NextProjects]_vars

(* C21: no user has two projects with the same name. *)
C21_ProjectNamesUnique ==
    \A p, q \in DOMAIN projects :
        (p # q /\ projects[p].user_id = projects[q].user_id) =>
            projects[p].name # projects[q].name

----------------------------------------------------------------------------
(* Closed value sets.  db/models.py declares ItemType, ItemStatus,         *)
(* ItemSource and Priority; the table checks type and status only, and     *)
(* init_db widens the status check by 'processing'.                        *)

ItemStatusValues == {"inbox", "active", "done", "archived"}

ItemSourceValues == {"text", "voice", "photo", "pdf", "forward", "link"}

PriorityValues == {"high", "medium", "low"}

(* CHECK valid_status as init_db leaves it *)
ValidStatuses == {"processing"} \cup ItemStatusValues

(* the two CHECK constraints of table items, evaluated at flush *)
CheckFails(row) ==
    \/ row.type \notin ValidTypes
    \/ row.status \notin ValidStatuses

(* tools.py: save_item, with the type and priority the call supplies *)
execute_save_item_typed(user_id, title, type, priority) ==
    LET row == SetValues(ItemDefaults,
                   [user_id |-> user_id, type |-> type, priority |-> priority,
                    source |-> Some("agent"), title |-> Some(title),
                    original_input |-> Some(title)])
    IN /\ nextItemId < MaxItems
       /\ nextItemId' = nextItemId + 1
       /\ IF CheckFails(row)
          THEN Plain("save_item", user_id, "exception", items, projects)
          ELSE Plain("save_item", user_id, "success",
                     Insert(items, nextItemId + 1, row), projects)
       /\ UNCHANGED <<nextProjectId, now, reminderVars, pending_clarifications, serviceVars>>

(* api/routes/items.py: PATCH /api/items/{id}; ItemUpdate declares type,   *)
(* status and priority as plain optional strings                           *)
update_item_values(user_id, item_id, update_data) ==
    /\ IF ItemGet(items, item_id, user_id) = None
       THEN Plain("update_item", user_id, "error_not_found", items, projects)
       ELSE IF CheckFails(SetValues(items[item_id], update_data))
       THEN Plain("update_item", user_id, "exception", items, projects)
       ELSE Plain("update_item", user_id, "success",
                  ItemUpdate(items, item_id, user_id, update_data), projects)
    /\ UNCHANGED <<nextItemId, nextProjectId, now, reminderVars,
                   pending_clarifications, serviceVars>>

TypeInputs == {"task", "note", "poem"}

StatusInputs == {"done", "processing", "paused"}

PriorityInputs == {None, Some("high"), Some("urgent")}

ValueUpdates ==
    { [type |-> t] : t \in TypeInputs }
        \cup { [status |-> s] : s \in StatusInputs }
        \cup { [priority |-> p] : p \in PriorityInputs }

SaveTyped ==
    \E u \in Users, t \in TypeInputs, p \in PriorityInputs :
        execute_save_item_typed(u, "buy milk", t, p)

PatchValues ==
    \E u \in Users, i \in ItemIds, d \in ValueUpdates :
        update_item_values(u, i, d)

NextValues == SaveTyped \/ PatchValues

SpecValues == Init /\ [][NextValues]_vars

(* C22: every persisted item has a type, status, source and priority drawn *)
(* from their closed value sets (priority may be null); a create or update *)
(* that supplies a value outside these sets persists nothing.              *)
C22_ClosedValueSets ==
    \A i \in DOMAIN items :
        /\ items[i].type \in ValidTypes
        /\ items[i].status \in ItemStatusValues
        /\ items[i].source # None /\ items[i].source[1] \in ItemSourceValues
        /\ items[i].priority # None => items[i].priority[1] \in PriorityValues

----------------------------------------------------------------------------
(* services/url_parser.py: the URL fetcher.  A URL is its scheme and host  *)
(* name; the network answers a request to a host with a page or with a     *)
(* redirect to another host.                                               *)

MaxRedirects == 3

BLOCKED_HOSTNAMES == {"localhost"}

is_ip_blocked(ip) ==
    \/ ip \in PrivateAddresses
    \/ ip \in LoopbackAddresses
    \/ ip \in LinkLocalAddresses

(* socket.getaddrinfo / the connection's own lookup: None when it fails *)
getaddrinfo(resolver, hostname) ==
    IF hostname = "localhost" THEN Some("127.0.0.1")
    ELSE IF hostname \in Addresses THEN Some(hostname)
    ELSE resolver[hostname]

is_url_safe(resolver, url) ==
    IF url.scheme \notin {"http", "https"} THEN <<FALSE, "scheme">>
    ELSE IF url.hostname = "" THEN <<FALSE, "no_host">>
    ELSE IF url.hostname \in BLOCKED_HOSTNAMES THEN <<FALSE, "localhost">>
    ELSE IF url.hostname \in Addresses
    THEN IF is_ip_blocked(url.hostname) THEN <<FALSE, "internal_ip">>
         ELSE <<TRUE, "">>
    ELSE LET addr == getaddrinfo(resolver, url.hostname) IN
         IF addr # None /\ is_ip_blocked(addr[1]) THEN <<FALSE, "internal_ip">>
         ELSE <<TRUE, "">>

(* client.get(url, follow_redirects=True): the requests sent, hop by hop.  *)
(* A host that does not resolve gets no request; a redirect is followed    *)
(* while hops remain.                                                      *)
RECURSIVE client_get(_, _, _, _)
client_get(resolver, redirects, hostname, hops) ==
    LET addr == getaddrinfo(resolver, hostname) IN
    IF addr = None THEN {}
    ELSE {[host |-> hostname, ip |-> addr[1], hop |-> MaxRedirects - hops]}
         \cup IF hostname \in DOMAIN redirects /\ redirects[hostname] # None
                 /\ hops > 0
              THEN client_get(resolver, redirects, redirects[hostname][1],
                              hops - 1)
              ELSE {}

(* URLParser.parse for a generic page *)
parse(url) ==
    LET safe == is_url_safe(dns, url)
        sent == IF safe[1]
                THEN client_get(dns, location, url.hostname, MaxRedirects)
                ELSE {}
    IN /\ requested' = sent
       /\ last' = [op |-> "parse", url |-> url,
                   result |-> IF safe[1] THEN "fetched" ELSE safe[2]]
       /\ UNCHANGED <<dns, location>>
       /\ UNCHANGED <<storeVars, confirmVars, reminderVars, now,
                      pending_clarifications, links, historyVars,
                       raceVars>>

Urls == { [scheme |-> s, hostname |-> h] :
            s \in {"https", "ftp"}, h \in Hosts \cup {""} }

ParseUrl == \E url \in Urls : parse(url)

(* the resolver's answer for a name changes *)
Register ==
    \E h \in HostNames, a \in {None} \cup { Some(ip) : ip \in Addresses } :
        /\ dns' = [dns EXCEPT ![h] = a]
        /\ UNCHANGED <<location, requested, last>>
        /\ UNCHANGED <<storeVars, confirmVars, reminderVars, now,
                       pending_clarifications, links, historyVars,
                       raceVars>>

(* a site starts or stops answering with a redirect *)
Publish ==
    \E h \in HostNames, t \in {None} \cup { Some(g) : g \in Hosts } :
        /\ location' = [location EXCEPT ![h] = t]
        /\ UNCHANGED <<dns, requested, last>>
        /\ UNCHANGED <<storeVars, confirmVars, reminderVars, now,
                       pending_clarifications, links, historyVars,
                       raceVars>>

NextFetch == ParseUrl \/ Register \/ Publish

SpecFetch == Init /\ [][NextFetch]_vars

(* C23: the fetcher never sends an HTTP request to a host whose address is *)
(* private, loopback, link-local, reserved, multicast or unspecified, on   *)
(* the first request and on every redirect hop.                            *)
C23_NoRequestToInternalAddress ==
    \A r \in requested : ~is_ip_blocked(r.ip)

----------------------------------------------------------------------------
(* db/search.py.  A text is the sequence of its words; a result list is    *)
(* the set of the ids it holds.  Every statement runs in the session's     *)
(* transaction: once a statement has failed the transaction is aborted and *)
(* the server refuses the statements after it.                             *)

SearchedTexts(item) ==
    { t[1] : t \in { item.title, item.content, item.original_input } \ {None} }

(* to_tsvector(...) @@ plainto_tsquery(query): every word of the query *)
FtsRows(its, user_id, query) ==
    { i \in DOMAIN its :
        /\ its[i].user_id = user_id
        /\ \A k \in DOMAIN query :
              \E t \in SearchedTexts(its[i]) : \E j \in DOMAIN t : t[j] = query[k] }

(* column ILIKE '%query%' *)
IlikeRows(its, user_id, query) ==
    { i \in DOMAIN its :
        /\ its[i].user_id = user_id
        /\ \E t \in SearchedTexts(its[i]) :
              \E o \in 0..(Len(t) - Len(query)) :
                  \A k \in DOMAIN query : t[o + k] = query[k] }

(* what a search call hands back: the list, whether it raised, whether a   *)
(* statement of it failed, and the transaction's state afterwards          *)
Found(rows, aborted, db_error) ==
    [result |-> rows, raised |-> FALSE, db_error |-> db_error,
     aborted |-> aborted]

Raised == [result |-> {}, raised |-> TRUE, db_error |-> TRUE, aborted |-> TRUE]

(* a search whose statement is not inside try/except *)
fts_search_unguarded(its, user_id, query, aborted, fails) ==
    IF aborted \/ fails THEN Raised
    ELSE Found(FtsRows(its, user_id, query), FALSE, FALSE)

fts_search(its, user_id, query, aborted, fails) ==
    IF aborted \/ fails THEN Found({}, TRUE, TRUE)
    ELSE Found(FtsRows(its, user_id, query), FALSE, FALSE)

ilike_search(its, user_id, query, aborted, fails) ==
    IF aborted \/ fails THEN Found({}, TRUE, TRUE)
    ELSE Found(IlikeRows(its, user_id, query), FALSE, FALSE)

(* near: the rows of the user the vector part of the statement selects *)
vector_search(its, user_id, query, embedding, near, aborted, fails) ==
    IF ~embedding THEN Found({}, aborted, FALSE)
    ELSE IF aborted \/ fails THEN Found({}, TRUE, TRUE)
    ELSE Found(near, FALSE, FALSE)

find_similar(its, item_id, user_id, near, aborted, fails) ==
    IF aborted \/ fails THEN Found({}, TRUE, TRUE)
    ELSE IF ItemGet(its, item_id, user_id) = None THEN Found({}, FALSE, FALSE)
    ELSE Found(near \ {item_id}, FALSE, FALSE)

(* fails: statement -> whether the server fails it of its own *)
hybrid_search(its, user_id, query, embedding, near, fails) ==
    IF query = <<>> THEN Found({}, FALSE, FALSE)
    ELSE IF ~embedding THEN fts_search(its, user_id, query, FALSE, fails.fts)
    ELSE IF fails.hybrid
    THEN LET r == fts_search(its, user_id, query, TRUE, fails.fts)
         IN [r EXCEPT !.db_error = TRUE]
    ELSE LET results == FtsRows(its, user_id, query) \cup near IN
         IF results = {} /\ Len(query) <= 3
         THEN ilike_search(its, user_id, query, FALSE, fails.ilike)
         ELSE Found(results, FALSE, FALSE)

Searched(op, user_id, query, r) ==
    /\ last' = [op |-> op, user |-> user_id, query |-> query,
                result |-> r.result, raised |-> r.raised,
                db_error |-> r.db_error]
    /\ UNCHANGED <<storeVars, confirmVars, reminderVars, now,
                   pending_clarifications, links, serviceVars>>

Titles == { <<"buy", "milk">>, <<"tea">> }

Queries == { <<>>, <<"milk">>, <<"buy", "milk">>, <<"coffee">>,
             <<"do", "not", "forget", "milk">> }

Statements == {"hybrid", "fts", "ilike"}

OwnRows(user_id) == { i \in DOMAIN items : items[i].user_id = user_id }

SaveTitled ==
    \E u \in Users, t \in Titles : execute_save_item_typed(u, t, "note", None)

HybridSearch ==
    \E u \in Users, q \in Queries, e \in BOOLEAN,
       fails \in [Statements -> BOOLEAN] :
        \E near \in SUBSET OwnRows(u) :
            Searched("hybrid_search", u, q,
                     hybrid_search(items, u, q, e, near, fails))

FtsSearch ==
    \E u \in Users, q \in Queries, f \in BOOLEAN :
        Searched("fts_search", u, q, fts_search(items, u, q, FALSE, f))

IlikeSearch ==
    \E u \in Users, q \in Queries, f \in BOOLEAN :
        Searched("ilike_search", u, q, ilike_search(items, u, q, FALSE, f))

VectorSearch ==
    \E u \in Users, q \in Queries, e \in BOOLEAN, f \in BOOLEAN :
        \E near \in SUBSET OwnRows(u) :
            Searched("vector_search", u, q,
                     vector_search(items, u, q, e, near, FALSE, f))

FindSimilar ==
    \E u \in Users, i \in ItemIds, f \in BOOLEAN :
        \E near \in SUBSET OwnRows(u) :
            Searched("find_similar", u, <<>>,
                     find_similar(items, i, u, near, FALSE, f))

NextSearch ==
    \/ SaveTitled
    \/ HybridSearch
    \/ FtsSearch
    \/ IlikeSearch
    \/ VectorSearch
    \/ FindSimilar

SpecSearch == Init /\ [][NextSearch]_vars

SearchOps ==
    {"hybrid_search", "fts_search", "ilike_search", "vector_search",
     "find_similar"}

(* C24: no search path propagates a database error to its caller; on a     *)
(* database error the call returns an empty result list.                   *)
C24_DatabaseErrorGivesEmptyList ==
    (last.op \in SearchOps /\ last.db_error) =>
        (~last.raised /\ last.result = {})

(* a hybrid search whose statement failed although rows match the query *)
C24_Witness ==
    /\ last.op = "hybrid_search"
    /\ last.db_error
    /\ FtsRows(items, last.user, last.query) # {}
    /\ last.result = {}

----------------------------------------------------------------------------
(* utils/history.py: MessageHistory *)

MAX_HISTORY == 6

MaxAdds == 7

HistoryMessage(role, content, timestamp) ==
    [role |-> role, content |-> content, timestamp |-> timestamp,
     metadata |-> None]

(* an append that refuses the new message when the deque is full *)
deque_append_keep_oldest(q, m, maxlen) ==
    IF Len(q) >= maxlen THEN q ELSE Append(q, m)

(* deque(maxlen).append: a full deque drops its oldest element *)
deque_append(q, m, maxlen) ==
    IF Len(q) >= maxlen THEN Append(Tail(q), m) ELSE Append(q, m)

(* messages[-limit:] *)
LastOf(q, n) ==
    IF Len(q) <= n THEN q ELSE SubSeq(q, Len(q) - n + 1, Len(q))

(* MessageHistory.get; limit None or 0 returns every stored message *)
get(store, user_id, limit) ==
    IF user_id \notin DOMAIN store THEN <<>>
    ELSE IF limit # None /\ limit[1] # 0 THEN LastOf(store[user_id], limit[1])
    ELSE store[user_id]

HistoryFrame ==
    UNCHANGED <<storeVars, confirmVars, reminderVars, now, last,
                pending_clarifications, links, fetchVars, raceVars>>

(* MessageHistory.add *)
add(user_id, role, content) ==
    LET q == IF user_id \in DOMAIN storage THEN storage[user_id] ELSE <<>>
        m == HistoryMessage(role, content, now)
    IN /\ Len(added[user_id]) < MaxAdds
       /\ storage' = Insert(storage, user_id, deque_append(q, m, MAX_HISTORY))
       /\ added' = [added EXCEPT ![user_id] = Append(@, m)]
       /\ HistoryFrame

(* MessageHistory.clear *)
clear(user_id) ==
    /\ storage' = Remove(storage, {user_id})
    /\ added' = [added EXCEPT ![user_id] = <<>>]
    /\ HistoryFrame

Roles == {"user", "assistant"}

HistoryAdd == \E u \in Users, r \in Roles : add(u, r, "hello")

HistoryClear == \E u \in Users : clear(u)

NextHistory == HistoryAdd \/ HistoryClear

SpecHistory == Init /\ [][NextHistory]_vars

(* C25: get(u) returns at most MAX_HISTORY messages, and they are exactly  *)
(* the most recent messages added for u since u's last clear, in insertion *)
(* order; what another user adds or clears is no part of it.               *)
C25_LastSixSinceClear ==
    \A u \in Users :
        /\ Len(get(storage, u, None)) <= MAX_HISTORY
        /\ get(storage, u, None) = LastOf(added[u], MAX_HISTORY)

(* one user has added more than the history keeps while another user has   *)
(* messages of their own                                                   *)
C25_Witness ==
    \E u, v \in Users :
        /\ u # v
        /\ Len(added[u]) > MAX_HISTORY
        /\ added[u][1].role # added[u][MAX_HISTORY + 1].role
        /\ Len(get(storage, u, None)) = MAX_HISTORY
        /\ Len(get(storage, v, None)) > 0

----------------------------------------------------------------------------
(* Accesses to the confirmation store.  A call has reached store_pending   *)
(* when it answers with a preview, get_pending when it answers a confirmed *)
(* call or a tap on the confirm button, and clear_pending when it answers  *)
(* a tap on the cancel button.                                             *)

StoreResults ==
    {"preview", "error_expired", "error_user", "success", "not_deleted",
     "exception", "unknown_operation", "cancelled"}

StoreOps ==
    {"batch_update_items", "batch_delete_items", "manage_projects_delete",
     "manage_projects_move_items", "batch_confirm", "batch_cancel"}

(* C30: after any access to the confirmation store (store_pending,         *)
(* get_pending or clear_pending) the store holds no operation older than   *)
(* the TTL; looking up an expired token deletes it.                        *)
C30_NoExpiredAfterAccess ==
    [][(now' = now /\ last'.op \in StoreOps /\ last'.result \in StoreResults)
          => \A k \in DOMAIN pending' : ~is_expired(pending'[k], now')]_vars

----------------------------------------------------------------------------
(* Rules the store accepts.  ItemUpdate.recurrence is any dict and         *)
(* ItemRepository.update writes it as given, so neither the type nor the   *)
(* interval of a stored rule is restricted.                                *)

AcceptedRules ==
    [type : {"daily", "weekly", "monthly", "yearly"}, interval : {0, 1},
     days : {{}},
     end_date : {Some([kind |-> "aware", at |-> EndDay * MinutesPerDay])}]

InitAccepted ==
    /\ \E d \in Dues, r \in AcceptedRules :
          items = Insert(EmptyStore, 1, RecurringItem(d, r))
    /\ nextItemId = 1
    /\ projects = EmptyStore
    /\ nextProjectId = 0
    /\ pending = EmptyStore
    /\ nextToken = 0
    /\ now = 0
    /\ last = NoLast
    /\ shown = EmptyStore
    /\ execCount = EmptyStore
    /\ delivered = EmptyStore
    /\ marked = EmptyStore
    /\ pending_clarifications = EmptyStore
    /\ links = {}
    /\ InitServices

SpecAccepted == InitAccepted /\ [][NextRecur]_vars

----------------------------------------------------------------------------
(* C28: a reminder a tick has sent is never sent again by a later tick,    *)
(* also when that tick failed afterwards: an item whose reminder for its   *)
(* current reminder time the transport has accepted is not selectable.     *)
C28_SentNotSelectable ==
    \A i \in DOMAIN delivered \cap DOMAIN items :
        (ReminderTime(items[i]) # None
            /\ ReminderTime(items[i])[1] \in delivered[i])
            => i \notin get_due_items(items, now)

----------------------------------------------------------------------------
(* Two confirm requests on one event loop.  A request runs without         *)
(* interruption from its start to its first database await, and from the   *)
(* return of that await to its end; another request may run in between.    *)

MaxRequests == 2

Requests == 1..MaxRequests

Entries == {"button", "tool"}

(* callbacks.py handle_batch_confirm / tools.py execute_batch_update_items *)
(* up to the await: get_pending and the user check                         *)
confirm_begin(r, user_id, token, entry, updates) ==
    LET pnd == get_pending(pending, token, now)
        pc == IF pnd = None THEN "error_expired"
              ELSE IF wrong_user(pnd[1], user_id) THEN "error_user"
              ELSE "awaiting"
    IN /\ r \notin DOMAIN requests
       /\ requests' = Insert(requests, r,
              [user |-> user_id, token |-> token, entry |-> entry,
               pending |-> pnd, updates |-> updates, pc |-> pc])
       /\ UNCHANGED <<storeVars, confirmVars, reminderVars, now, last, links,
                      pending_clarifications, fetchVars, historyVars>>

(* the store after the statement the request awaits *)
Applied(q) ==
    LET p == q.pending[1] IN
    IF q.entry = "tool" \/ p.action = "update"
    THEN [items |-> batch_update(items, p.matched_ids, q.user,
                        update_values(IF q.entry = "tool" THEN q.updates
                                      ELSE p.updates)),
          projects |-> projects]
    ELSE IF p.action = "delete"
    THEN [items |-> batch_delete(items, p.matched_ids, q.user),
          projects |-> projects]
    ELSE IF p.action = "delete_project"
    THEN [items |-> ProjectDeleteItems(items, projects, p.filter.project_id,
                                       q.user),
          projects |-> ProjectDelete(projects, p.filter.project_id, q.user)]
    ELSE [items |-> move_items(items, p.filter.project_id,
                               p.filter.target_project_id, q.user),
          projects |-> projects]

(* the rest of the request: the statement takes effect, clear_pending, the *)
(* answer, and the session's commit                                        *)
confirm_resume(r) ==
    /\ r \in DOMAIN requests
    /\ requests[r].pc = "awaiting"
    /\ LET q == requests[r]
           after == Applied(q)
       IN /\ Return(IF q.entry = "tool" THEN "batch_update_items"
                    ELSE "batch_confirm",
                    q.user, TRUE, Some(q.token), "success",
                    after.items, after.projects,
                    clear_pending(pending, q.token))
          /\ Executed(q.token)
          /\ requests' = [requests EXCEPT ![r].pc = "success"]
    /\ UNCHANGED <<nextItemId, nextProjectId, nextToken, shown, reminderVars,
                   now, pending_clarifications, fetchVars, historyVars>>

PreviewUpdate ==
    \E u \in Users, f \in Filters, up \in UpdateChoices :
        execute_batch_update_items(u, f, up, FALSE, None) /\ ToolFrame

PreviewDelete ==
    \E u \in Users, f \in Filters :
        execute_batch_delete_items(u, f, FALSE, None) /\ ToolFrame

ConfirmBegin ==
    \E r \in Requests, u \in Users, t \in Tokens :
        \/ confirm_begin(r, u, t, "button", NoUpdates)
        \/ confirm_begin(r, u, t, "tool", [status |-> "done"])

ConfirmResume == \E r \in Requests : confirm_resume(r)

NextRace ==
    \/ SaveItemCall
    \/ PreviewUpdate
    \/ PreviewDelete
    \/ ConfirmBegin
    \/ ConfirmResume

SpecRace == Init /\ [][NextRace]_vars

(* C26: of two requests that carry the same token and run concurrently, at *)
(* most one applies the operation; the other is rejected as expired.       *)
C26_OneRequestApplies ==
    \A r, q \in DOMAIN requests :
        (r # q /\ requests[r].token = requests[q].token)
            => ~(requests[r].pc = "success" /\ requests[q].pc = "success")

----------------------------------------------------------------------------
(* Confirmed calls against the operation the token stores: two projects,   *)
(* two sets of update values, and every tool that takes a token.           *)

StatusUpdates == { [status |-> "done"], [status |-> "archived"] }

TwoProjects ==
    \E u \in Users, n \in Names :
        manage_projects_create_within(u, n, MaxNamedProjects)

BoundUpdateCall ==
    \E u \in Users, up \in StatusUpdates, c \in BOOLEAN, t \in TokenArgs :
        execute_batch_update_items(u, NoFilter, up, c, t) /\ ToolFrame

BoundDeleteCall ==
    \E u \in Users, c \in BOOLEAN, t \in TokenArgs :
        execute_batch_delete_items(u, NoFilter, c, t) /\ ToolFrame

BoundProjectDeleteCall ==
    \E u \in Users, p \in NamedProjectIds, c \in BOOLEAN, t \in TokenArgs :
        manage_projects_delete(u, p, c, t) /\ ToolFrame

NextBound ==
    \/ SaveItemCall
    \/ TwoProjects
    \/ BoundUpdateCall
    \/ BoundDeleteCall
    \/ BoundProjectDeleteCall
    \/ ConfirmButton

SpecBound == Init /\ [][NextBound]_vars

(* the store after the operation p is carried out as stored *)
Stored(p) ==
    Applied([entry |-> "button", pending |-> Some(p), user |-> p.user_id,
             updates |-> NoUpdates])

(* C27: a confirmed execution performs exactly the operation its token's   *)
(* preview described: the stored action, on the stored project, with the   *)
(* stored update values.                                                   *)
C27_ExecutesStoredOperation ==
    [][\A t \in DOMAIN pending \ DOMAIN pending' :
          (last'.authorized /\ last'.result = "success")
              => (items' = Stored(pending[t]).items
                  /\ projects' = Stored(pending[t]).projects)]_vars

=============================================================================
